---- MODULE Spec2Model ----
(***************************************************************************)
(* Verification model of the multiprocessing notebooks.                    *)
(*                                                                         *)
(* A notebook kernel holds global names (output, queue, processes,         *)
(* results, onlyfiles, file, ...) that its cells read and assign.  Each    *)
(* cell that the properties are about is modelled as a program over these  *)
(* globals, with one specification per cell.  Text is a sequence of        *)
(* Unicode code points, a Counter/dict is a function from keys to counts.  *)
(***************************************************************************)
EXTENDS Integers, Sequences, FiniteSets, TLC

VARIABLES
  cell,          \* which notebook cell (program) is being run
  pc,            \* position of the main program inside the cell
  i,             \* loop index of the main program's current loop
  processes,     \* list of mp.Process objects: [args, state, ...]
  output,        \* mp.Queue of answers
  got,           \* the list comprehension [output.get() for p in processes]
  results,       \* the global name `results`
  printed,       \* what the cells have printed, in order
  produced,      \* history: what each process has put on output
  putOrder,      \* history: the processes in the order of their puts
  length,        \* first argument of rand_string
  onlyfiles,     \* the directory listing: the text of each file
  queue,         \* mp.Queue of jobs (task 4)
  CPU,           \* mp.cpu_count() of task 4
  file,          \* the global name `file` of task 6: a whole text, lowered
  cpu,           \* mp.cpu_count() of task 6
  b,             \* the global name `b`: len(file) // cpu; the bag of foldby
  taskq,         \* the tasks submitted to the mp.Pool and not yet taken
  workers,       \* the pool's worker processes: <<>> or <<task>>
  cache,         \* results of the finished pool tasks, by job number
  total,         \* local `total` of count_in_dir
  chars_in_file, \* local `chars_in_file` of count_in_dir
  returned,      \* what the called function returned: <<>> or <<value>>
  result,        \* the global name `result`
  js,            \* the dask bag `js`: a list of partitions of records
  partials,      \* foldby: the per-key table of each folded partition
  combined,      \* foldby: the partitions whose table has been combined
  df,            \* the dataframe `df`: a list of rows
  taken          \* history: the jobs each process has got from queue

mainVars == <<pc, i>>
procVars == <<processes, output, produced, putOrder>>
randVars == <<length>>
dirVars == <<onlyfiles, queue, CPU, taken>>
sliceVars == <<file, cpu, b>>
poolVars == <<taskq, workers, cache>>
bookVars == <<total, chars_in_file, returned>>
bagVars == <<result, js, partials, combined, df>>

vars == <<cell, mainVars, procVars, got, results, printed, randVars, dirVars,
          sliceVars, poolVars, bookVars, bagVars>>

\* The values of the names a cell does not use.
NoRand == length = 0
NoDir == onlyfiles = <<>> /\ queue = <<>> /\ CPU = 0 /\ taken = <<>>
NoSlices == file = <<>> /\ cpu = 0 /\ b = 0
NoPool == taskq = <<>> /\ workers = <<>> /\ cache = <<>>
NoBook == total = <<>> /\ chars_in_file = <<>> /\ returned = <<>>
NoBag ==
  /\ result = <<>> /\ js = <<>> /\ partials = <<>>
  /\ combined = {} /\ df = <<>>
NoProcs ==
  /\ processes = <<>> /\ output = <<>> /\ produced = <<>> /\ putOrder = <<>>
  /\ got = <<>>

(***************************************************************************)
(* Bounds of the model.                                                    *)
(***************************************************************************)
MaxProcs == 3
MaxStrLen == 2
MaxFiles == 3
MaxCPU == 3
MaxLen == 3
MaxParts == 2
MaxPartLen == 2
PipeCapacity == 1

(***************************************************************************)
(* Generic helpers.                                                        *)
(***************************************************************************)
Range(s) == {s[k] : k \in DOMAIN s}

SeqsUpTo(S, n) == UNION {[1..k -> S] : k \in 0..n}

\* The multiset of the elements of a sequence.
BagOf(s) == [x \in Range(s) |-> Cardinality({k \in DOMAIN s : s[k] = x})]

(***************************************************************************)
(* Characters of the random strings: string.ascii_lowercase +              *)
(* string.ascii_uppercase + string.digits, as code points.                 *)
(***************************************************************************)
ascii_lowercase == 97..122
ascii_uppercase == 65..90
digits == 48..57
RandAlphabet == ascii_lowercase \cup ascii_uppercase \cup digits

\* The characters random.choice is let to draw in the model: one lowercase
\* letter, one uppercase letter (a sample of the 62).
RandSample == {97, 65}

\* Strings one character too long.
RandStrLong(len) == [1..(len + 1) -> RandSample]
\* ''.join(random.choice(alphabet) for i in range(length)): every string of
\* `len` characters drawn from the alphabet.
RandStr(len) == [1..len -> RandSample]

(***************************************************************************)
(* The Process/Queue loops shared by the cells:                            *)
(*   for p in processes: p.start()                                         *)
(*   for p in processes: p.join()                                          *)
(*   [output.get() for p in processes]                                     *)
(***************************************************************************)
NewProcess(args) == [args |-> args, state |-> "initial"]

\* p.start() for the i-th process; after the last one the join loop begins.
StartLoop ==
  /\ pc = "start"
  /\ i <= Len(processes)
  /\ processes' = [processes EXCEPT ![i].state = "started"]
  /\ IF i = Len(processes)
       THEN pc' = "join" /\ i' = 1
       ELSE pc' = pc /\ i' = i + 1

\* p.join() for the i-th process: blocks until that process has exited.
JoinLoop ==
  /\ pc = "join"
  /\ i <= Len(processes)
  /\ processes[i].state = "stopped"
  /\ IF i = Len(processes)
       THEN pc' = "get" /\ i' = 1
       ELSE pc' = pc /\ i' = i + 1

\* A get that takes the newest item of the queue.
GetLifo ==
  /\ pc = "get"
  /\ i <= Len(processes)
  /\ output # <<>>
  /\ got' = Append(got, output[Len(output)])
  /\ output' = SubSeq(output, 1, Len(output) - 1)
  /\ IF i = Len(processes)
       THEN pc' = "assign" /\ i' = 1
       ELSE pc' = pc /\ i' = i + 1

\* A get that gives up on an empty queue and yields an empty table.
GetOrGiveUp ==
  /\ pc = "get"
  /\ i <= Len(processes)
  /\ IF output # <<>>
       THEN got' = Append(got, Head(output)) /\ output' = Tail(output)
       ELSE got' = Append(got, <<>>) /\ output' = output
  /\ IF i = Len(processes)
       THEN pc' = "assign" /\ i' = 1
       ELSE pc' = pc /\ i' = i + 1

\* One output.get() of the comprehension: blocks while the queue is empty,
\* takes the oldest item.
GetLoop ==
  /\ pc = "get"
  /\ i <= Len(processes)
  /\ output # <<>>
  /\ got' = Append(got, Head(output))
  /\ output' = Tail(output)
  /\ IF i = Len(processes)
       THEN pc' = "assign" /\ i' = 1
       ELSE pc' = pc /\ i' = i + 1

\* output.put(item) by process p, which then returns and exits.
PutAndExit(p, item) ==
  /\ output' = Append(output, item)
  /\ processes' = [processes EXCEPT ![p].state = "stopped"]
  /\ produced' = [produced EXCEPT ![p] = Append(@, item)]
  /\ putOrder' = Append(putOrder, p)

(***************************************************************************)
(* Random strings: N processes running rand_string(length, output).        *)
(***************************************************************************)
InitRand ==
  /\ cell = "rand_string"
  /\ pc = "start" /\ i = 1
  /\ length \in 0..MaxStrLen
  /\ \E n \in 1..MaxProcs :
       /\ processes = [x \in 1..n |-> NewProcess(<<length>>)]
       /\ produced = [x \in 1..n |-> <<>>]
  /\ output = <<>> /\ putOrder = <<>>
  /\ got = <<>> /\ results = <<>> /\ printed = <<>>
  /\ NoDir /\ NoSlices /\ NoPool /\ NoBook /\ NoBag

\* rand_string(length, output) in process p.
rand_string(p) ==
  /\ processes[p].state = "started"
  /\ \E rand_str \in RandStr(processes[p].args[1]) : PutAndExit(p, rand_str)
  /\ UNCHANGED <<cell, mainVars, got, results, printed, randVars, dirVars,
                 sliceVars, poolVars, bookVars,
                 bagVars>>

\* for p in processes: p.start()
RandStart ==
  /\ StartLoop
  /\ UNCHANGED <<cell, output, produced, putOrder, got, results, printed,
                 randVars, dirVars, sliceVars, poolVars, bookVars,
                 bagVars>>

\* for p in processes: p.join()
RandJoin ==
  /\ JoinLoop
  /\ UNCHANGED <<cell, procVars, got, results, printed, randVars, dirVars,
                 sliceVars, poolVars, bookVars,
                 bagVars>>

\* [output.get() for p in processes]
RandGet ==
  /\ GetLoop
  /\ UNCHANGED <<cell, processes, produced, putOrder, results, printed,
                 randVars, dirVars, sliceVars, poolVars, bookVars,
                 bagVars>>

\* results = [...] ; print(results)
RandPrint ==
  /\ pc = "assign"
  /\ results' = got
  /\ printed' = Append(printed, got)
  /\ pc' = "done"
  /\ UNCHANGED <<cell, i, procVars, got, randVars, dirVars, sliceVars,
                 poolVars, bookVars,
                 bagVars>>

NextRand ==
  \/ RandStart
  \/ RandJoin
  \/ RandGet
  \/ RandPrint
  \/ \E p \in DOMAIN processes : rand_string(p)

SpecRand == InitRand /\ [][NextRand]_vars

\* C7: once all N processes are started and joined and the N gets are done,
\* the collected results are exactly the N strings the processes produced
\* (as a multiset: none lost, none duplicated), each of the requested length
\* and made of ASCII letters and digits.
C7_RandResultsAreProduced ==
  pc = "done" =>
    /\ Len(results) = Len(processes)
    /\ \A p \in DOMAIN processes : Len(produced[p]) = 1
    /\ BagOf(results) = BagOf([p \in DOMAIN processes |-> produced[p][1]])
    /\ \A k \in DOMAIN results :
         /\ Len(results[k]) = length
         /\ Range(results[k]) \subseteq RandAlphabet

C7_Witness ==
  /\ pc = "done"
  /\ Len(results) >= 2
  /\ length >= 1
  /\ results[1] # results[2]

\* C8: without a position tag the collected results are in the order of the
\* puts onto the queue, not in the order of the `processes` list.
C8_ResultsInPutOrder ==
  pc = "done" =>
    /\ Len(putOrder) = Len(results)
    /\ \A k \in DOMAIN results : results[k] = produced[putOrder[k]][1]

\* An execution in which results[k] was produced by a process other than
\* processes[k].
C8_Witness ==
  /\ pc = "done"
  /\ \E k \in DOMAIN results :
       /\ putOrder[k] # k
       /\ results[k] # produced[k][1]

(***************************************************************************)
(* Random strings with a position tag: rand_string(length, pos, output)    *)
(* puts (pos, rand_str); a later cell sorts the results and drops the tag. *)
(***************************************************************************)
\* Python's < on str: lexicographic by code point, a proper prefix is less.
RECURSIVE StrLess(_, _)
StrLess(s, t) ==
  IF t = <<>> THEN FALSE
  ELSE IF s = <<>> THEN TRUE
  ELSE IF s[1] # t[1] THEN s[1] < t[1]
  ELSE StrLess(Tail(s), Tail(t))

\* Python's < on the tuples (pos, rand_str): by pos, then by string.
TupleLess(x, y) == x[1] < y[1] \/ (x[1] = y[1] /\ StrLess(x[2], y[2]))

\* A sort that compares only the strings of the tuples.
RECURSIVE InsertByString(_, _)
InsertByString(x, s) ==
  IF s = <<>> THEN <<x>>
  ELSE IF StrLess(x[2], s[1][2]) THEN <<x>> \o s
  ELSE <<s[1]>> \o InsertByString(x, Tail(s))

RECURSIVE SortByString(_)
SortByString(s) ==
  IF s = <<>> THEN <<>>
  ELSE InsertByString(s[Len(s)], SortByString(SubSeq(s, 1, Len(s) - 1)))

\* Insert x into the sorted list s, after the elements not greater than it.
RECURSIVE Insert(_, _)
Insert(x, s) ==
  IF s = <<>> THEN <<x>>
  ELSE IF TupleLess(x, s[1]) THEN <<x>> \o s
  ELSE <<s[1]>> \o Insert(x, Tail(s))

RECURSIVE Sorted(_)
Sorted(s) ==
  IF s = <<>> THEN <<>>
  ELSE Insert(s[Len(s)], Sorted(SubSeq(s, 1, Len(s) - 1)))

\* results.sort(): the list in ascending order of its tuples.
list_sort(s) == Sorted(s)

InitRandPos ==
  /\ cell = "rand_string_2"
  /\ pc = "start" /\ i = 1
  /\ length \in 0..MaxStrLen
  /\ \E n \in 1..MaxProcs :
       /\ processes = [x \in 1..n |-> NewProcess(<<length, x - 1>>)]
       /\ produced = [x \in 1..n |-> <<>>]
  /\ output = <<>> /\ putOrder = <<>>
  /\ got = <<>> /\ results = <<>> /\ printed = <<>>
  /\ NoDir /\ NoSlices /\ NoPool /\ NoBook /\ NoBag

\* rand_string(length, pos, output) in process p.
rand_string_2(p) ==
  /\ processes[p].state = "started"
  /\ \E rand_str \in RandStr(processes[p].args[1]) :
       PutAndExit(p, <<processes[p].args[2], rand_str>>)
  /\ UNCHANGED <<cell, mainVars, got, results, printed, randVars, dirVars,
                 sliceVars, poolVars, bookVars,
                 bagVars>>

\* The next cell: results.sort(); results = [r[1] for r in results]; print.
SortCell ==
  /\ pc = "done"
  /\ results' = [k \in DOMAIN results |-> list_sort(results)[k][2]]
  /\ printed' = Append(printed, results')
  /\ pc' = "sorted"
  /\ UNCHANGED <<cell, i, procVars, got, randVars, dirVars, sliceVars,
                 poolVars, bookVars,
                 bagVars>>

NextRandPos ==
  \/ RandStart
  \/ RandJoin
  \/ RandGet
  \/ RandPrint
  \/ SortCell
  \/ \E p \in DOMAIN processes : rand_string_2(p)

SpecRandPos == InitRandPos /\ [][NextRandPos]_vars

\* C9: with the position tag, after sorting and dropping the tag, results[i]
\* is the string produced by the process started with pos = i, in every
\* interleaving of the workers.
C9_SortedResultsByPos ==
  pc = "sorted" =>
    /\ Len(results) = Len(processes)
    /\ \A p \in DOMAIN processes :
         results[processes[p].args[2] + 1] = produced[p][1][2]

\* The workers put in an order other than their positions, and the strings
\* are not in sorted order themselves.
C9_Witness ==
  /\ pc = "sorted"
  /\ \E k \in DOMAIN putOrder : putOrder[k] # k
  /\ \E k \in 1..(Len(results) - 1) : StrLess(results[k + 1], results[k])

(***************************************************************************)
(* Text and tallies.  A text is a sequence of code points:                 *)
(*   1040..1071 'А'..'Я', 1072..1103 'а'..'я', 1025 'Ё', 1105 'ё',         *)
(*   10 newline, 32 space.                                                 *)
(***************************************************************************)
\* str.lower() of one character.
lower(c) ==
  IF c \in 1040..1071 THEN c + 32
  ELSE IF c = 1025 THEN 1105
  ELSE IF c \in 65..90 THEN c + 32
  ELSE c

\* s.lower()
str_lower(s) == [k \in DOMAIN s |-> lower(s[k])]

\* set(chr(symb) for symb in range(ord('а'), ord('я') + 1))
rus == 1072..1103

InRus(c) == c \in rus

\* `for line in file`: the lines of a text, each with its newline.
RECURSIVE Lines(_)
Lines(text) ==
  IF text = <<>> THEN <<>>
  ELSE LET ends == {k \in DOMAIN text : text[k] = 10}
           n == IF ends = {} THEN Len(text)
                ELSE CHOOSE k \in ends : \A j \in ends : k <= j
       IN <<SubSeq(text, 1, n)>> \o Lines(SubSeq(text, n + 1, Len(text)))

\* itertools.chain.from_iterable(seqs)
RECURSIVE chain(_)
chain(seqs) == IF seqs = <<>> THEN <<>> ELSE seqs[1] \o chain(Tail(seqs))

\* collections.Counter(iterable): how many times each element occurs.
Counter(s) == [x \in Range(s) |-> Cardinality({k \in DOMAIN s : s[k] = x})]

\* A + that keeps the right operand's count for a key both tables hold.
CounterUpdate(x, y) ==
  [k \in DOMAIN x \cup DOMAIN y |-> IF k \in DOMAIN y THEN y[k] ELSE x[k]]

\* Counter.__add__: counts added per key, only positive counts kept.
CounterAdd(x, y) ==
  LET val(k) == (IF k \in DOMAIN x THEN x[k] ELSE 0)
                + (IF k \in DOMAIN y THEN y[k] ELSE 0)
  IN [k \in {j \in DOMAIN x \cup DOMAIN y : val(j) > 0} |-> val(k)]

\* functools.reduce(op.add, lst) for a non-empty list: ((l1 + l2) + l3) ...
\* A list of one element is returned as that element.
RECURSIVE reduce_add(_)
reduce_add(lst) ==
  IF Len(lst) = 1 THEN lst[1]
  ELSE CounterAdd(reduce_add(SubSeq(lst, 1, Len(lst) - 1)), lst[Len(lst)])

\* count_letters2(file_name): the tally of the lowered letters of rus.
count_letters2(text) ==
  LET lines == Lines(text)
  IN Counter(chain([k \in DOMAIN lines |->
                      SelectSeq(str_lower(lines[k]), InRus)]))

\* Task 2, sequentially: reduce(op.add, [count_letters2(f) for f in files]).
SequentialTotal(files) ==
  reduce_add([k \in DOMAIN files |-> count_letters2(files[k])])

\* The body of counter.counting of tasks 3, 4 and 5: the same tally.
counting(text) ==
  LET lines == Lines(text)
  IN Counter(chain([k \in DOMAIN lines |->
                      SelectSeq(str_lower(lines[k]), InRus)]))

\* The texts of the files of the directory 'text/' in the model:
\* "Аа\nб", "бё Я\n", "" and "а".
SampleTexts ==
  { <<1040, 1072, 10, 1073>>, <<1073, 1105, 32, 1071, 10>>, <<>>, <<1072>> }

(***************************************************************************)
(* Task 3: one process per file.                                           *)
(***************************************************************************)
InitTask3 ==
  /\ cell = "task3"
  /\ pc = "start" /\ i = 1
  /\ \E n \in 1..MaxFiles :
       /\ onlyfiles \in [1..n -> SampleTexts]
       /\ processes = [x \in 1..n |-> NewProcess(<<x>>)]
       /\ produced = [x \in 1..n |-> <<>>]
  /\ queue = <<>> /\ CPU = 0 /\ taken = <<>>
  /\ output = <<>> /\ putOrder = <<>>
  /\ got = <<>> /\ results = <<>> /\ printed = <<>>
  /\ NoRand /\ NoSlices /\ NoPool /\ NoBook /\ NoBag

\* counter.counting(file_name, output) in process p.
counting3(p) ==
  /\ processes[p].state = "started"
  /\ PutAndExit(p, counting(onlyfiles[processes[p].args[1]]))
  /\ UNCHANGED <<cell, mainVars, got, results, printed, randVars, dirVars,
                 sliceVars, poolVars, bookVars,
                 bagVars>>

\* results = reduce(op.add, [...]) ; print(results)
ReducePrint ==
  /\ pc = "assign"
  /\ results' = reduce_add(got)
  /\ printed' = Append(printed, results')
  /\ pc' = "done"
  /\ UNCHANGED <<cell, i, procVars, got, randVars, dirVars, sliceVars,
                 poolVars, bookVars,
                 bagVars>>

NextTask3 ==
  \/ RandStart
  \/ RandJoin
  \/ RandGet
  \/ ReducePrint
  \/ \E p \in DOMAIN processes : counting3(p)

SpecTask3 == InitTask3 /\ [][NextTask3]_vars

\* C2: one process per file: after every process has been started and
\* joined the main program takes exactly len(files) partial tallies, each
\* file contributes exactly one of them, and their merged sum equals the
\* sequential total over the same files, whatever order the processes
\* finish in.
C2_Task3EqualsSequential ==
  pc = "done" =>
    /\ Len(got) = Len(onlyfiles)
    /\ \A p \in DOMAIN processes :
         /\ Len(produced[p]) = 1
         /\ produced[p][1] = count_letters2(onlyfiles[p])
    /\ \A k \in DOMAIN got : got[k] = produced[putOrder[k]][1]
    /\ Cardinality(Range(putOrder)) = Len(onlyfiles)
    /\ output = <<>>
    /\ results = SequentialTotal(onlyfiles)

\* Three files whose processes finished in another order than they were
\* listed, with different tallies.
C2_Witness ==
  /\ cell = "task3"
  /\ pc = "done"
  /\ Len(onlyfiles) >= 2
  /\ putOrder[1] # 1
  /\ got[1] # produced[1][1]
  /\ results # <<>>

(***************************************************************************)
(* Task 4: CPU processes taking file names from a task queue that ends     *)
(* with CPU None sentinels, putting their tallies on the output queue.     *)
(* A file name on the queue is <<k>> (the k-th listed file), None is <<>>. *)
(***************************************************************************)
None == <<>>

InitTask4 ==
  /\ cell = "task4"
  /\ pc = "fill" /\ i = 1
  /\ \E n \in 0..MaxFiles : onlyfiles \in [1..n -> SampleTexts]
  /\ CPU \in 1..MaxCPU
  /\ processes = [x \in 1..CPU |->
                    [args |-> <<>>, state |-> "initial", job |-> None]]
  /\ produced = [x \in 1..CPU |-> <<>>]
  /\ queue = <<>> /\ taken = [x \in 1..CPU |-> <<>>]
  /\ output = <<>> /\ putOrder = <<>>
  /\ got = <<>> /\ results = <<>> /\ printed = <<>>
  /\ NoRand /\ NoSlices /\ NoPool /\ NoBook /\ NoBag

\* A filling that puts the sentinels before the file names.
FillQueueSentinelsFirst ==
  /\ pc = "fill"
  /\ queue' = [k \in 1..CPU |-> None] \o [k \in DOMAIN onlyfiles |-> <<k>>]
  /\ pc' = "start"
  /\ UNCHANGED <<cell, i, procVars, got, results, printed, randVars,
                 onlyfiles, CPU, taken, sliceVars, poolVars, bookVars,
                 bagVars>>

\* A filling that puts a single sentinel after the file names.
FillQueueOneSentinel ==
  /\ pc = "fill"
  /\ queue' = [k \in DOMAIN onlyfiles |-> <<k>>] \o <<None>>
  /\ pc' = "start"
  /\ UNCHANGED <<cell, i, procVars, got, results, printed, randVars,
                 onlyfiles, CPU, taken, sliceVars, poolVars, bookVars,
                 bagVars>>

\* for i in onlyfiles: queue.put(i) ; for i in range(CPU): queue.put(None)
FillQueue ==
  /\ pc = "fill"
  /\ queue' = [k \in DOMAIN onlyfiles |-> <<k>>] \o [k \in 1..CPU |-> None]
  /\ pc' = "start"
  /\ UNCHANGED <<cell, i, procVars, got, results, printed, randVars,
                 onlyfiles, CPU, taken, sliceVars, poolVars, bookVars,
                 bagVars>>

\* counter.counting(queue, output) in process p, top of the loop:
\* job = queue.get(); if job == None: break
TakeJob(p) ==
  /\ processes[p].state = "started"
  /\ queue # <<>>
  /\ queue' = Tail(queue)
  /\ taken' = [taken EXCEPT ![p] = Append(@, Head(queue))]
  /\ processes' =
       IF Head(queue) = None
         THEN [processes EXCEPT ![p].state = "stopped"]
         ELSE [processes EXCEPT ![p].state = "working", ![p].job = Head(queue)]
  /\ UNCHANGED <<cell, mainVars, output, produced, putOrder, got, results,
                 printed, randVars, onlyfiles, CPU, sliceVars, poolVars,
                 bookVars,
                 bagVars>>

\* ... the rest of the loop body: tally the file of the job, output.put(cnt).
CountJob(p) ==
  /\ processes[p].state = "working"
  /\ LET cnt == counting(onlyfiles[processes[p].job[1]])
     IN /\ output' = Append(output, cnt)
        /\ produced' = [produced EXCEPT ![p] = Append(@, cnt)]
  /\ putOrder' = Append(putOrder, p)
  /\ processes' = [processes EXCEPT ![p].state = "started"]
  /\ UNCHANGED <<cell, mainVars, got, results, printed, randVars, dirVars,
                 sliceVars, poolVars, bookVars,
                 bagVars>>

counting4(p) == TakeJob(p) \/ CountJob(p)

NextTask4 ==
  \/ FillQueue
  \/ RandStart
  \/ RandJoin
  \/ RandGet
  \/ ReducePrint
  \/ \E p \in DOMAIN processes : counting4(p)

SpecTask4 == InitTask4 /\ [][NextTask4]_vars

\* C1: fixed-size pool of worker processes: for any number of files and any
\* CPU >= 1 the tally the main program prints equals the sequential total
\* over all files.
C1_Task4EqualsSequential ==
  (cell = "task4" /\ pc = "done") => results = SequentialTotal(onlyfiles)

(***************************************************************************)
(* mp.Pool: a task queue served by a fixed number of worker processes.     *)
(* A task is [job, func, arg]; a worker holds <<>> or <<task>>; cache maps *)
(* the job numbers of the finished tasks to their results (what the        *)
(* AsyncResult objects hold).                                              *)
(***************************************************************************)
\* cube_.cube
cube(x) == x * x * x

\* counter.counting(slices) of task 6: no lowering, no lines.
counting_slices(slices) == Counter(SelectSeq(slices, InRus))

(***************************************************************************)
(* count_chars_in_book, in its two variants.                               *)
(***************************************************************************)
\* set("абвгдеёжзийклмнопрстуфхцчшщъыьэюя")
alphabet == (1072..1103) \cup {1105}

\* The letters a variant of count_chars_in_book looks for:
\* re.match(r'[а-я]', char) or char in alphabet.
Letters(variant) == IF variant = "regex" THEN 1072..1103 ELSE alphabet

\* if char in chars: chars[char] += 1  else: chars[char] = 0
CountChar(chars, char) ==
  IF char \in DOMAIN chars
    THEN [chars EXCEPT ![char] = @ + 1]
    ELSE (char :> 0) @@ chars

\* The loop over the characters of one lowered line.
RECURSIVE CountLine(_, _, _)
CountLine(variant, chars, line) ==
  IF line = <<>> THEN chars
  ELSE CountLine(variant,
                 IF line[1] \in Letters(variant)
                   THEN CountChar(chars, line[1]) ELSE chars,
                 Tail(line))

\* The loop over the lines of the file.
RECURSIVE CountLines(_, _, _)
CountLines(variant, chars, lines) ==
  IF lines = <<>> THEN chars
  ELSE CountLines(variant, CountLine(variant, chars, str_lower(lines[1])),
                  Tail(lines))

\* count_chars_in_book(path)
count_chars_in_book(variant, text) == CountLines(variant, <<>>, Lines(text))

\* The function of a task applied to its argument.
Call(func, arg) ==
  IF func = "cube" THEN cube(arg)
  ELSE IF func = "counting_file" THEN counting(arg)
  ELSE IF func = "count_chars_in_book" THEN count_chars_in_book("alphabet", arg)
  ELSE counting_slices(arg)

\* A pool with one worker more than asked for.
NewPoolExtra(n) ==
  /\ taskq' = <<>>
  /\ workers' = [w \in 1..(n + 1) |-> <<>>]
  /\ cache' = <<>>

\* mp.Pool(n)
NewPool(n) ==
  /\ taskq' = <<>>
  /\ workers' = [w \in 1..n |-> <<>>]
  /\ cache' = <<>>

\* pool.apply_async(func, args=(arg,)) as job number `job`.
Submit(job, func, arg) ==
  taskq' = Append(taskq, [job |-> job, func |-> func, arg |-> arg])

\* An idle worker takes the oldest task.
PoolTake(w) ==
  /\ workers[w] = <<>>
  /\ taskq # <<>>
  /\ workers' = [workers EXCEPT ![w] = <<Head(taskq)>>]
  /\ taskq' = Tail(taskq)
  /\ UNCHANGED <<cell, mainVars, procVars, got, results, printed, randVars,
                 dirVars, sliceVars, cache, bookVars,
                 bagVars>>

\* A worker finishes its task: the result is stored under the job number.
PoolRun(w) ==
  /\ workers[w] # <<>>
  /\ LET t == workers[w][1]
     IN /\ cache' = (t.job :> Call(t.func, t.arg)) @@ cache
        /\ putOrder' = Append(putOrder, t.job)
  /\ workers' = [workers EXCEPT ![w] = <<>>]
  /\ UNCHANGED <<cell, mainVars, processes, output, produced, got, results,
                 printed, randVars, dirVars, sliceVars, taskq, bookVars,
                 bagVars>>

(***************************************************************************)
(* Task 6: the text of one file cut into cpu slices, each tallied by a     *)
(* pool task.                                                              *)
(***************************************************************************)
\* s[lo:hi] for 0 <= lo <= hi (0-based, hi excluded, cut at the end of s).
PySlice(s, lo, hi) ==
  SubSeq(s, lo + 1, IF hi < Len(s) THEN hi ELSE Len(s))

\* The bounds of the slice of loop index j: file[(b * j) : (b * (j + 1))].
SliceBounds(j) == <<b * j, b * (j + 1)>>

\* The characters of the lowered text in the model: 'а', 'б' and a space.
TextChars == {1072, 1073, 32}

\* What the name `results` holds when the cell starts: nothing usable, or
\* the list of tallies some earlier cell left there (of this text, or of
\* another one).
StaleResults(text) ==
  { <<>>,
    <<counting_slices(text)>>,
    <<counting_slices(<<1072>>)>>,
    <<counting_slices(<<1072>>), counting_slices(<<1073, 1072>>)>> }

InitTask6 ==
  /\ cell = "task6"
  /\ pc = "setup" /\ i = 0
  /\ file \in SeqsUpTo(TextChars, MaxLen)
  /\ cpu \in 1..MaxCPU
  /\ b = 0
  /\ results \in StaleResults(file)
  /\ printed = <<>>
  /\ NoProcs /\ NoRand /\ NoDir /\ NoPool /\ NoBook /\ NoBag

\* cpu = mp.cpu_count(); pool = mp.Pool(cpu); b = len(file) // cpu
Setup ==
  /\ pc = "setup"
  /\ NewPool(cpu)
  /\ b' = Len(file) \div cpu
  /\ pc' = "submit"
  /\ UNCHANGED <<cell, i, procVars, got, results, printed, randVars, dirVars,
                 file, cpu, bookVars,
                 bagVars>>

\* for i in range(cpu): pool.apply_async(counter.counting, args=(slice,))
\* The AsyncResult each call returns is dropped.
SubmitSlice ==
  /\ pc = "submit"
  /\ i < cpu
  /\ Submit(i + 1, "counting",
            PySlice(file, SliceBounds(i)[1], SliceBounds(i)[2]))
  /\ i' = i + 1
  /\ pc' = IF i + 1 = cpu THEN "print" ELSE pc
  /\ UNCHANGED <<cell, procVars, got, results, printed, randVars, dirVars,
                 sliceVars, workers, cache, bookVars,
                 bagVars>>

\* print(reduce(op.add, results)): reads the global `results`, which this
\* cell never assigns; reduce of an empty or missing list raises.
PrintStale ==
  /\ pc = "print"
  /\ IF results = <<>>
       THEN pc' = "error" /\ printed' = printed
       ELSE pc' = "done" /\ printed' = Append(printed, reduce_add(results))
  /\ UNCHANGED <<cell, i, procVars, got, results, randVars, dirVars,
                 sliceVars, poolVars, bookVars,
                 bagVars>>

NextTask6 ==
  \/ Setup
  \/ SubmitSlice
  \/ PrintStale
  \/ \E w \in DOMAIN workers : PoolTake(w)
  \/ \E w \in DOMAIN workers : PoolRun(w)

SpecTask6 == InitTask6 /\ [][NextTask6]_vars

\* C3: for every text length L >= 0 and every cpu >= 1 the cpu slices
\* file[b*i : b*(i+1)], b = L // cpu, are contiguous, pairwise disjoint and
\* together cover every character of the text exactly once.
C3_SlicesCoverText ==
  (cell = "task6" /\ pc # "setup") =>
    /\ \A j \in 0..(cpu - 2) : SliceBounds(j)[2] = SliceBounds(j + 1)[1]
    /\ \A k \in 0..(Len(file) - 1) :
         Cardinality({j \in 0..(cpu - 1) :
                        SliceBounds(j)[1] <= k /\ k < SliceBounds(j)[2]}) = 1

\* The partial tallies of the cpu tasks the cell submits.
TaskPartials ==
  [k \in 1..cpu |->
     counting_slices(PySlice(file, SliceBounds(k - 1)[1],
                             SliceBounds(k - 1)[2]))]

\* C4: the tally the cell prints is the pairwise-addition merge of the
\* partial tallies of the cpu tasks submitted in that cell, and it equals
\* the sequential tally of the whole text.
C4_Task6PrintsMergeOfTasks ==
  (cell = "task6" /\ pc = "done") =>
    /\ printed[1] = reduce_add(TaskPartials)
    /\ printed[1] = count_letters2(file)

(***************************************************************************)
(* The sequential count_in_dir.                                            *)
(***************************************************************************)
\* cell "regex" runs count_in_dir over the count_chars_in_book of the
\* notebook, cell "alphabet" the pair written to counters.py.
InitBook ==
  /\ cell \in {"regex", "alphabet"}
  /\ pc = "loop" /\ i = 1
  /\ \E n \in 0..MaxFiles : onlyfiles \in [1..n -> SampleTexts]
  /\ queue = <<>> /\ CPU = 0 /\ taken = <<>>
  /\ total = <<>> /\ chars_in_file = <<>> /\ returned = <<>>
  /\ results = <<>> /\ printed = <<>>
  /\ NoProcs /\ NoRand /\ NoSlices /\ NoPool /\ NoBag

\* count_in_dir, one turn of `for file in files`:
\* chars_in_file = Counter(count_chars_in_book(path))
\* total = total + chars_in_file
CountFile ==
  /\ pc = "loop"
  /\ i <= Len(onlyfiles)
  /\ chars_in_file' = count_chars_in_book(cell, onlyfiles[i])
  /\ total' = CounterAdd(total, chars_in_file')
  /\ i' = i + 1
  /\ UNCHANGED <<cell, pc, procVars, got, results, printed, randVars,
                 dirVars, sliceVars, poolVars, returned, bagVars>>

\* return dict(total)
Return ==
  /\ pc = "loop"
  /\ i > Len(onlyfiles)
  /\ returned' = <<total>>
  /\ pc' = "returned"
  /\ UNCHANGED <<cell, i, procVars, got, results, printed, randVars,
                 dirVars, sliceVars, poolVars, total, chars_in_file,
                 bagVars>>

count_in_dir == CountFile \/ Return

NextBook == count_in_dir

SpecBook == InitBook /\ [][NextBook]_vars

\* How many times character c occurs in the text s.
Occurrences(c, s) == Cardinality({k \in DOMAIN s : s[k] = c})

\* C5: count_chars_in_book returns a table in which, for every letter of its
\* alphabet that occurs in the case-folded file, the stored value is exactly
\* the number of occurrences of that letter (regex and alphabet variants).
C5_BookTableCountsOccurrences ==
  (cell \in {"regex", "alphabet"} /\ pc = "loop" /\ i > 1) =>
    LET text == str_lower(onlyfiles[i - 1])
    IN \A c \in Letters(cell) \cap Range(text) :
         /\ c \in DOMAIN chars_in_file
         /\ chars_in_file[c] = Occurrences(c, text)

\* The occurrences of c in the first n files, case-folded.
RECURSIVE OccurrencesInFiles(_, _, _)
OccurrencesInFiles(c, files, n) ==
  IF n = 0 THEN 0
  ELSE OccurrencesInFiles(c, files, n - 1)
       + Occurrences(c, str_lower(files[n]))

\* C6: the table count_in_dir returns has an entry for every letter that
\* occurs in at least one file of the directory, and its value is the total
\* number of occurrences of that letter summed over all files.
C6_DirTableSumsOccurrences ==
  (cell = "regex" /\ pc = "returned") =>
    \A c \in Letters(cell) :
      OccurrencesInFiles(c, onlyfiles, Len(onlyfiles)) > 0 =>
        /\ c \in DOMAIN returned[1]
        /\ returned[1][c] = OccurrencesInFiles(c, onlyfiles, Len(onlyfiles))

(***************************************************************************)
(* Cubing range(1, 7) with a pool of 4 workers, in three cells run one    *)
(* after the other: a list of pool.apply calls, pool.map, a list of        *)
(* pool.apply_async calls followed by get.                                 *)
(***************************************************************************)
PoolProcesses == 4

\* range(1, 7)
xs == <<1, 2, 3, 4, 5, 6>>

InitCube ==
  /\ cell = "cube"
  /\ pc = "apply_pool" /\ i = 1
  /\ results = <<>> /\ printed = <<>>
  /\ NoProcs /\ NoRand /\ NoDir /\ NoSlices /\ NoPool /\ NoBook /\ NoBag

\* pool = mp.Pool(processes=4), first line of each of the three cells.
CubePool ==
  /\ pc \in {"apply_pool", "map_pool", "async_pool"}
  /\ NewPool(PoolProcesses)
  /\ got' = <<>> /\ putOrder' = <<>> /\ i' = 1
  /\ pc' = CASE pc = "apply_pool" -> "apply_submit"
             [] pc = "map_pool" -> "map_submit"
             [] pc = "async_pool" -> "async_submit"
  /\ UNCHANGED <<cell, processes, output, produced, results, printed,
                 randVars, dirVars, sliceVars, bookVars,
                 bagVars>>

\* pool.apply(cube_.cube, args=(x,)): submits the task ...
ApplySubmit ==
  /\ pc = "apply_submit"
  /\ Submit(i, "cube", xs[i])
  /\ pc' = "apply_wait"
  /\ UNCHANGED <<cell, i, procVars, got, results, printed, randVars, dirVars,
                 sliceVars, workers, cache, bookVars,
                 bagVars>>

\* An apply that returns without waiting (0 for a missing result).
ApplyNoWait ==
  /\ pc = "apply_wait"
  /\ got' = Append(got, IF i \in DOMAIN cache THEN cache[i] ELSE 0)
  /\ IF i = Len(xs)
       THEN pc' = "apply_print" /\ i' = 1
       ELSE pc' = "apply_submit" /\ i' = i + 1
  /\ UNCHANGED <<cell, procVars, results, printed, randVars, dirVars,
                 sliceVars, poolVars, bookVars, bagVars>>

\* ... and returns its result once it is there; then the next x.
ApplyWait ==
  /\ pc = "apply_wait"
  /\ i \in DOMAIN cache
  /\ got' = Append(got, cache[i])
  /\ IF i = Len(xs)
       THEN pc' = "apply_print" /\ i' = 1
       ELSE pc' = "apply_submit" /\ i' = i + 1
  /\ UNCHANGED <<cell, procVars, results, printed, randVars, dirVars,
                 sliceVars, poolVars, bookVars,
                 bagVars>>

\* results = [...] ; print(results)   (apply cell, map cell)
CubePrint ==
  /\ pc \in {"apply_print", "map_print"}
  /\ results' = got
  /\ printed' = Append(printed, got)
  /\ pc' = IF pc = "apply_print" THEN "map_pool" ELSE "async_pool"
  /\ UNCHANGED <<cell, i, procVars, got, randVars, dirVars, sliceVars,
                 poolVars, bookVars,
                 bagVars>>

\* pool.map(cube_.cube, range(1,7)): all items are submitted at once (six
\* items on four workers make chunks of one item) ...
MapSubmit ==
  /\ pc = "map_submit"
  /\ taskq' = [k \in DOMAIN xs |-> [job |-> k, func |-> "cube", arg |-> xs[k]]]
  /\ pc' = "map_wait"
  /\ UNCHANGED <<cell, i, procVars, got, results, printed, randVars, dirVars,
                 sliceVars, workers, cache, bookVars,
                 bagVars>>

\* A map that returns what is there without waiting (0 for a missing result).
MapNoWait ==
  /\ pc = "map_wait"
  /\ got' = [k \in DOMAIN xs |-> IF k \in DOMAIN cache THEN cache[k] ELSE 0]
  /\ pc' = "map_print"
  /\ UNCHANGED <<cell, i, procVars, results, printed, randVars, dirVars,
                 sliceVars, poolVars, bookVars, bagVars>>

\* ... and the call returns the list of results by item index once every
\* task has finished.
MapWait ==
  /\ pc = "map_wait"
  /\ \A k \in DOMAIN xs : k \in DOMAIN cache
  /\ got' = [k \in DOMAIN xs |-> cache[k]]
  /\ pc' = "map_print"
  /\ UNCHANGED <<cell, i, procVars, results, printed, randVars, dirVars,
                 sliceVars, poolVars, bookVars,
                 bagVars>>

\* A submission loop that goes on to the gets after its first task.
AsyncSubmitOne ==
  /\ pc = "async_submit"
  /\ Submit(i, "cube", xs[i])
  /\ pc' = "async_get" /\ i' = 1 /\ results' = [k \in DOMAIN xs |-> k]
  /\ UNCHANGED <<cell, procVars, got, printed, randVars, dirVars, sliceVars,
                 workers, cache, bookVars, bagVars>>

\* results = [pool.apply_async(cube_.cube, args=(x,)) for x in range(1,7)]
\* An AsyncResult is the job number it waits for.
AsyncSubmit ==
  /\ pc = "async_submit"
  /\ Submit(i, "cube", xs[i])
  /\ IF i = Len(xs)
       THEN pc' = "async_get" /\ i' = 1 /\ results' = [k \in DOMAIN xs |-> k]
       ELSE pc' = pc /\ i' = i + 1 /\ results' = results
  /\ UNCHANGED <<cell, procVars, got, printed, randVars, dirVars, sliceVars,
                 workers, cache, bookVars,
                 bagVars>>

\* A get that takes the results in the order the tasks finished.
AsyncGetAsCompleted ==
  /\ pc = "async_get"
  /\ i <= Len(putOrder)
  /\ got' = Append(got, cache[putOrder[i]])
  /\ IF i = Len(results)
       THEN pc' = "async_print" /\ i' = 1
       ELSE pc' = pc /\ i' = i + 1
  /\ UNCHANGED <<cell, procVars, results, printed, randVars, dirVars,
                 sliceVars, poolVars, bookVars,
                 bagVars>>

\* One p.get() of [p.get() for p in results]: blocks until that task has
\* finished.
AsyncGet ==
  /\ pc = "async_get"
  /\ results[i] \in DOMAIN cache
  /\ got' = Append(got, cache[results[i]])
  /\ IF i = Len(results)
       THEN pc' = "async_print" /\ i' = 1
       ELSE pc' = pc /\ i' = i + 1
  /\ UNCHANGED <<cell, procVars, results, printed, randVars, dirVars,
                 sliceVars, poolVars, bookVars,
                 bagVars>>

\* output = [...] ; print(output)
AsyncPrint ==
  /\ pc = "async_print"
  /\ output' = got
  /\ printed' = Append(printed, got)
  /\ pc' = "done"
  /\ UNCHANGED <<cell, i, processes, produced, putOrder, got, results,
                 randVars, dirVars, sliceVars, poolVars, bookVars,
                 bagVars>>

NextCube ==
  \/ CubePool
  \/ ApplySubmit
  \/ ApplyWait
  \/ CubePrint
  \/ MapSubmit
  \/ MapWait
  \/ AsyncSubmit
  \/ AsyncGet
  \/ AsyncPrint
  \/ \E w \in DOMAIN workers : PoolTake(w)
  \/ \E w \in DOMAIN workers : PoolRun(w)

SpecCube == InitCube /\ [][NextCube]_vars

\* C10: with a pool of 4 workers the three submission styles (pool.apply
\* calls, pool.map, pool.apply_async followed by get in submission order)
\* all yield the list [x**3 for x in 1..6] in input order, whichever worker
\* runs which task and in whatever order the tasks complete.
C10_CubeStylesAgree ==
  cell = "cube" =>
    /\ \A k \in DOMAIN printed : printed[k] = <<1, 8, 27, 64, 125, 216>>
    /\ pc = "done" => Len(printed) = 3 /\ output = printed[1]

\* All three cells have printed, and the tasks of the apply_async cell
\* finished in another order than they were submitted.
C10_Witness ==
  /\ cell = "cube"
  /\ pc = "done"
  /\ Len(printed) = 3
  /\ \E k \in DOMAIN putOrder : putOrder[k] # k

(***************************************************************************)
(* Task 5: one pool task per file, pool.close(), pool.join(), then the     *)
(* gets and the merge.                                                     *)
(***************************************************************************)
InitTask5 ==
  /\ cell = "task5"
  /\ pc = "pool" /\ i = 1
  /\ \E n \in 0..MaxFiles : onlyfiles \in [1..n -> SampleTexts]
  /\ queue = <<>> /\ CPU = 0 /\ taken = <<>>
  /\ results = <<>> /\ printed = <<>>
  /\ NoProcs /\ NoRand /\ NoSlices /\ NoPool /\ NoBook /\ NoBag

\* pool = mp.Pool(mp.cpu_count())
Task5Pool ==
  /\ pc = "pool"
  /\ \E n \in 1..MaxCPU : NewPool(n)
  /\ pc' = "submit"
  /\ UNCHANGED <<cell, i, procVars, got, results, printed, randVars, dirVars,
                 sliceVars, bookVars, bagVars>>

\* result = [pool.apply_async(counter.counting, args=(i,)) for i in onlyfiles]
\* An AsyncResult is the job number it waits for.
Task5Submit ==
  /\ pc = "submit"
  /\ IF i <= Len(onlyfiles)
       THEN /\ Submit(i, "counting_file", onlyfiles[i])
            /\ i' = i + 1
            /\ UNCHANGED <<pc, result>>
       ELSE /\ result' = [k \in DOMAIN onlyfiles |-> k]
            /\ pc' = "close"
            /\ UNCHANGED <<i, taskq>>
  /\ UNCHANGED <<cell, procVars, got, results, printed, randVars, dirVars,
                 sliceVars, workers, cache, bookVars, js, partials,
                 combined, df>>

\* pool.close(): nothing more is submitted.
Task5Close ==
  /\ pc = "close"
  /\ pc' = "join"
  /\ UNCHANGED <<cell, i, procVars, got, results, printed, randVars, dirVars,
                 sliceVars, poolVars, bookVars, bagVars>>

\* A join that returns at once.
Task5JoinNoWait ==
  /\ pc = "join"
  /\ pc' = "get" /\ i' = 1
  /\ UNCHANGED <<cell, procVars, got, results, printed, randVars, dirVars,
                 sliceVars, poolVars, bookVars, bagVars>>

\* pool.join(): returns when the workers have exited, which they do once
\* the closed pool has no task left, queued or running.
Task5Join ==
  /\ pc = "join"
  /\ taskq = <<>>
  /\ \A w \in DOMAIN workers : workers[w] = <<>>
  /\ pc' = "get" /\ i' = 1
  /\ UNCHANGED <<cell, procVars, got, results, printed, randVars, dirVars,
                 sliceVars, poolVars, bookVars, bagVars>>

\* One i.get() of [i.get() for i in result]: blocks until that task has
\* finished.
Task5Get ==
  /\ pc = "get"
  /\ IF i <= Len(result)
       THEN /\ result[i] \in DOMAIN cache
            /\ got' = Append(got, cache[result[i]])
            /\ i' = i + 1
            /\ pc' = pc
       ELSE /\ pc' = "reduce"
            /\ UNCHANGED <<i, got>>
  /\ UNCHANGED <<cell, procVars, results, printed, randVars, dirVars,
                 sliceVars, poolVars, bookVars, bagVars>>

\* result = reduce(op.add, [...]) ; print(result)
\* reduce of an empty list without initial value raises TypeError.
Task5Reduce ==
  /\ pc = "reduce"
  /\ IF got = <<>>
       THEN pc' = "error" /\ UNCHANGED <<result, printed>>
       ELSE /\ result' = reduce_add(got)
            /\ printed' = Append(printed, result')
            /\ pc' = "done"
  /\ UNCHANGED <<cell, i, procVars, got, results, randVars, dirVars,
                 sliceVars, poolVars, bookVars, js, partials,
                 combined, df>>

NextTask5 ==
  \/ Task5Pool
  \/ Task5Submit
  \/ Task5Close
  \/ Task5Join
  \/ Task5Get
  \/ Task5Reduce
  \/ \E w \in DOMAIN workers : PoolTake(w)
  \/ \E w \in DOMAIN workers : PoolRun(w)

SpecTask5 == InitTask5 /\ [][NextTask5]_vars

\* C11: managed pool over the file list: after all the apply_async
\* submissions, pool.close() and pool.join(), every submitted task has
\* completed, so each get returns without blocking, and the merged tally
\* equals the sequential total over the same files.
C11_Task5EqualsSequential ==
  cell = "task5" =>
    /\ pc \in {"get", "reduce", "error", "done"} =>
         /\ taskq = <<>>
         /\ \A w \in DOMAIN workers : workers[w] = <<>>
         /\ \A k \in DOMAIN onlyfiles :
              k \in DOMAIN cache /\ cache[k] = count_letters2(onlyfiles[k])
    /\ pc = "done" =>
         /\ result = SequentialTotal(onlyfiles)
         /\ printed = <<result>>

\* The cell has printed the total of at least two files whose tasks
\* finished in another order than they were submitted.
C11_Witness ==
  /\ cell = "task5"
  /\ pc = "done"
  /\ Len(onlyfiles) >= 2
  /\ putOrder[1] # 1

\* C12: the merge of partial tallies by pairwise addition is associative and
\* commutative on tables with positive counts, so the merged total of the
\* tallies taken from the results queue is the same for every order in
\* which they arrive.
C12_MergeOrderIndependent ==
  (cell = "task3" /\ pc \in {"assign", "done"}) =>
    /\ \A x \in Range(got) : \A k \in DOMAIN x : x[k] > 0
    /\ \A x, y \in Range(got) : CounterAdd(x, y) = CounterAdd(y, x)
    /\ \A x, y, z \in Range(got) :
         CounterAdd(CounterAdd(x, y), z) = CounterAdd(x, CounterAdd(y, z))
    /\ \A perm \in Permutations(DOMAIN got) :
         reduce_add([k \in DOMAIN got |-> got[perm[k]]]) = reduce_add(got)
    /\ pc = "done" => results = reduce_add(got)

\* Three tallies, two of them different with a letter in common, arrived in
\* another order than the files are listed, and were merged.
C12_Witness ==
  /\ cell = "task3"
  /\ pc = "done"
  /\ Len(got) = 3
  /\ putOrder # <<1, 2, 3>>
  /\ \E x, y \in DOMAIN got :
       /\ got[x] # got[y]
       /\ DOMAIN got[x] \cap DOMAIN got[y] # {}

\* The tasks the pool's workers are executing.
Executing == {w \in DOMAIN workers : workers[w] # <<>>}

\* The jobs submitted to the pool so far: queued, executing or finished.
Submitted ==
  {taskq[k].job : k \in DOMAIN taskq}
    \cup {workers[w][1].job : w \in Executing}
    \cup DOMAIN cache

\* C13: with a pool created with processes=4, at every moment at most 4
\* submitted tasks are executing, however many tasks have been submitted.
C13_AtMostFourExecuting ==
  cell = "cube" =>
    /\ Cardinality(Executing) <= 4
    /\ Len(workers) \in {0, 4}

\* Four of the six tasks of pool.map are executing and the other two wait
\* in the task queue.
C13_Witness ==
  /\ cell = "cube"
  /\ pc = "map_wait"
  /\ Cardinality(Executing) = 4
  /\ Len(taskq) = 2

\* C14: Pool.map and Pool.apply block the main program: it does not reach
\* the statement after a pool.map (or pool.apply) call until every task
\* submitted by that call has finished.
C14_MapAndApplyBlock ==
  cell = "cube" =>
    /\ pc = "map_print" =>
         /\ \A k \in DOMAIN xs : k \in DOMAIN cache
         /\ taskq = <<>> /\ Executing = {}
    /\ pc \in {"apply_submit", "apply_print"} =>
         /\ taskq = <<>> /\ Executing = {}
         /\ Submitted = DOMAIN cache
         /\ Len(got) = Cardinality(DOMAIN cache)

\* pool.map has returned after its six tasks finished in another order
\* than the items were given.
C14_Witness ==
  /\ cell = "cube"
  /\ pc = "map_print"
  /\ Len(putOrder) = 6
  /\ putOrder # <<1, 2, 3, 4, 5, 6>>

\* C15: in the apply_async style all six tasks are submitted to the pool
\* before the main program waits on any result.
C15_AllSubmittedBeforeWait ==
  cell = "cube" =>
    /\ pc = "async_get" => Submitted = DOMAIN xs
    /\ pc = "async_submit" => got = <<>>

\* The main program is at its first get with all six tasks submitted and
\* none of them finished.
C15_Witness ==
  /\ cell = "cube"
  /\ pc = "async_get"
  /\ i = 1
  /\ Submitted = DOMAIN xs
  /\ cache = <<>>

LetterChars == {1040, 1072, 1025, 1105, 1103, 10, 32}

\* re.findall("[а-яА-ЯёЁ]", text): the characters of the character class.
InClass(c) == c \in (1072..1103) \cup (1040..1071) \cup {1105, 1025}

\* count_letters(file_name): Counter(re.findall(..., file.read().lower()))
count_letters(text) == Counter(SelectSeq(str_lower(text), InClass))

\* set(chr(c) for c in range(ord('а'), ord('я'))): 'я' is not in it.
rus_symb == 1072..1102

InRusSymb(c) == c \in rus_symb

\* The name the generator expression of a correct tally would yield.
LoopName == "c"

\* The generator expression (с for c in line.lower() if c in rus_symb):
\* the name it yields is the Cyrillic letter es, its loop variable is the
\* Latin c.
YieldedName == "es"

\* The value of a name inside the generator expression: <<value>>, or <<>>
\* when the name is neither the loop variable nor a global (no cell of the
\* notebook assigns a global of either name): NameError.
Lookup(name, ch) == IF name = "c" THEN <<ch>> ELSE <<>>

\* The second count_letters of the lecture notebook: <<tally>>, or <<>> when
\* the call ends in NameError.  Counter consumes the chained generators; the
\* first character that passes the filter makes the generator evaluate the
\* yielded name.
count_letters_lecture(text) ==
  LET lines == Lines(text)
      passing == chain([k \in DOMAIN lines |->
                          SelectSeq(str_lower(lines[k]), InRusSymb)])
      items == [k \in DOMAIN passing |-> Lookup(YieldedName, passing[k])]
  IN IF \E k \in DOMAIN items : items[k] = <<>>
       THEN <<>>
       ELSE <<Counter([k \in DOMAIN items |-> items[k][1]])>>

InitLetters ==
  /\ cell \in {"count_letters", "count_letters2", "count_letters_lecture"}
  /\ pc = "call" /\ i = 1
  /\ onlyfiles \in [1..1 -> SeqsUpTo(LetterChars, MaxLen)]
  /\ queue = <<>> /\ CPU = 0 /\ taken = <<>>
  /\ results = <<>> /\ printed = <<>>
  /\ NoProcs /\ NoRand /\ NoSlices /\ NoPool /\ NoBook /\ NoBag

\* count_letters(file_name) on the file
CallCountLetters ==
  /\ cell = "count_letters" /\ pc = "call"
  /\ returned' = <<count_letters(onlyfiles[1])>>
  /\ pc' = "returned"
  /\ UNCHANGED <<cell, i, procVars, got, results, printed, randVars, dirVars,
                 sliceVars, poolVars, total, chars_in_file, bagVars>>

\* count_letters2(file_name) on the file
CallCountLetters2 ==
  /\ cell = "count_letters2" /\ pc = "call"
  /\ returned' = <<count_letters2(onlyfiles[1])>>
  /\ pc' = "returned"
  /\ UNCHANGED <<cell, i, procVars, got, results, printed, randVars, dirVars,
                 sliceVars, poolVars, total, chars_in_file, bagVars>>

\* The cell calling the second count_letters of the lecture notebook: the
\* call returns, or the cell ends with the traceback of NameError.
CallCountLettersLecture ==
  /\ cell = "count_letters_lecture" /\ pc = "call"
  /\ LET r == count_letters_lecture(onlyfiles[1])
     IN IF r = <<>>
          THEN pc' = "NameError" /\ UNCHANGED returned
          ELSE pc' = "returned" /\ returned' = r
  /\ UNCHANGED <<cell, i, procVars, got, results, printed, randVars, dirVars,
                 sliceVars, poolVars, total, chars_in_file, bagVars>>

NextLetters ==
  \/ CallCountLetters
  \/ CallCountLetters2
  \/ CallCountLettersLecture

SpecLetters == InitLetters /\ [][NextLetters]_vars

\* How many times letter c occurs in the text s in either case.
OccurrencesAnyCase(c, s) == Cardinality({k \in DOMAIN s : lower(s[k]) = c})

\* C17: count_letters2 counts each of the 33 Russian letters (ё included)
\* with upper and lower case not distinguished: every letter that occurs has
\* the number of its occurrences in either case as its tally value, and no
\* other character has an entry.
C17_CountLetters2AllLetters ==
  (cell = "count_letters2" /\ pc = "returned") =>
    LET cnt == returned[1]
    IN /\ DOMAIN cnt \subseteq alphabet
       /\ \A c \in alphabet :
            IF OccurrencesAnyCase(c, onlyfiles[1]) > 0
              THEN c \in DOMAIN cnt
                   /\ cnt[c] = OccurrencesAnyCase(c, onlyfiles[1])
              ELSE c \notin DOMAIN cnt

\* C18: the second count_letters of the lecture notebook ends in an
\* unhandled NameError, returning no tally, for every file whose case-folded
\* text has at least one character of its letter set; nothing catches the
\* error.
C18_LectureCountLettersRaises ==
  (cell = "count_letters_lecture" /\ pc # "call") =>
    IF \E k \in DOMAIN onlyfiles[1] : lower(onlyfiles[1][k]) \in rus_symb
      THEN pc = "NameError" /\ returned = <<>> /\ printed = <<>>
      ELSE pc = "returned" /\ returned = << <<>> >>

\* The call on a file with a capital letter of the letter set has ended in
\* NameError.
C18_Witness ==
  /\ cell = "count_letters_lecture"
  /\ pc = "NameError"
  /\ \E k \in DOMAIN onlyfiles[1] : onlyfiles[1][k] = 1040

(***************************************************************************)
(* Task 3 with files that a worker may fail to read.                       *)
(***************************************************************************)
\* counter.counting(file_name, output) in process p when open() or the
\* decoding of a line raises: the exception ends the process before
\* output.put(cnt).
counting3_raises(p) ==
  /\ processes[p].state = "started"
  /\ processes' = [processes EXCEPT ![p].state = "stopped"]
  /\ UNCHANGED <<cell, mainVars, output, produced, putOrder, got, results,
                 printed, randVars, dirVars, sliceVars, poolVars, bookVars,
                 bagVars>>

NextTask3Failing ==
  \/ RandStart
  \/ RandJoin
  \/ RandGet
  \/ ReducePrint
  \/ \E p \in DOMAIN processes : counting3(p)
  \/ \E p \in DOMAIN processes : counting3_raises(p)

SpecTask3Failing == InitTask3 /\ [][NextTask3Failing]_vars

\* The processes that ended without putting a tally on the output queue.
Failed ==
  {p \in DOMAIN processes :
     processes[p].state = "stopped" /\ produced[p] = <<>>}

\* C19: no partial-failure handling in the one-process-per-file program: if
\* a worker process ends without putting its tally on the output queue,
\* every join still returns, but the main program never gets past its gets
\* and never prints: once the queue is drained it is blocked in
\* output.get() and no step of the program is possible any more.
C19_FailedWorkerBlocksMain ==
  (cell = "task3" /\ Failed # {}) =>
    /\ pc \notin {"assign", "done"}
    /\ printed = <<>> /\ results = <<>>
    /\ (pc = "join" /\ processes[i].state = "stopped") => ENABLED RandJoin
    /\ ( /\ pc = "get"
         /\ output = <<>>
         /\ \A p \in DOMAIN processes : processes[p].state = "stopped" )
       => ~ENABLED NextTask3Failing

\* Every process has been joined, one of three ended without a put, the
\* main program has taken the two tallies that were put and is blocked in
\* the third get.
C19_Witness ==
  /\ cell = "task3"
  /\ pc = "get"
  /\ Len(processes) = 3
  /\ Cardinality(Failed) = 1
  /\ Len(got) = 2
  /\ output = <<>>

(***************************************************************************)
(* dask.bag: the number of records per name, by groupby and by foldby.     *)
(* A bag is a list of partitions, a partition a list of records, a name a  *)
(* sequence of code points.  A dict is a function from keys to values.     *)
(***************************************************************************)
\* The names of the records in the model: "Al" and "A".
Names == { <<65, 108>>, <<65>> }

Records == [name : Names]

\* Every list that holds each element of the set S once.
Orderings(S) == {s \in [1..Cardinality(S) -> S] : Range(s) = S}

\* Python's < on the tuples (name, count): by name, then by count.
PairLess(x, y) == StrLess(x[1], y[1]) \/ (x[1] = y[1] /\ x[2] < y[2])

RECURSIVE InsertPair(_, _)
InsertPair(x, s) ==
  IF s = <<>> THEN <<x>>
  ELSE IF PairLess(x, s[1]) THEN <<x>> \o s
  ELSE <<s[1]>> \o InsertPair(x, Tail(s))

\* sorted(result)
RECURSIVE sorted(_)
sorted(s) ==
  IF s = <<>> THEN <<>>
  ELSE InsertPair(s[Len(s)], sorted(SubSeq(s, 1, Len(s) - 1)))

\* lambda item: item['name']  /  key='name'
key(item) == item.name

\* def incr(tot, _): return tot+1
incr(tot, x) == tot + 1

\* A combine that counts the partitions instead of adding their counts.
count_one(x, y) == x + 1

\* operator.add
add(x, y) == x + y

\* A binop that keeps its second argument.
keep_last(x, y) == y

\* max(x, y)
max(x, y) == IF y > x THEN y ELSE x

\* binop or combine, by name.
BinOp(op, x, y) ==
  IF op = "incr" THEN incr(x, y)
  ELSE IF op = "max" THEN max(x, y)
  ELSE add(x, y)

\* toolz.reduceby(key, binop, seq, init) for a seq given as its list of keys
\* and its list of values: per key, binop folded over the values from init.
RECURSIVE reduceby(_, _, _, _)
reduceby(op, init, keys, vals) ==
  IF keys = <<>> THEN <<>>
  ELSE LET n == Len(keys)
           acc == reduceby(op, init, SubSeq(keys, 1, n - 1),
                           SubSeq(vals, 1, n - 1))
           prev == IF keys[n] \in DOMAIN acc THEN acc[keys[n]] ELSE init
       IN (keys[n] :> BinOp(op, prev, vals[n])) @@ acc

\* dict.items() as a set of (key, value) tuples.
items(d) == {<<k, d[k]>> : k \in DOMAIN d}

\* js.groupby(lambda item: item['name']): the (name, list of the records of
\* that name) pairs of the whole bag.
groupby(bag) ==
  LET all == chain(bag)
  IN {<<key(all[k]), SelectSeq(all, LAMBDA r : key(r) = key(all[k]))>> :
        k \in DOMAIN all}

\* .starmap(lambda k, v: (k, len(v)))
starmap_len(pairs) == {<<kv[1], Len(kv[2])>> : kv \in pairs}

\* foldby inside one partition: reduceby(key, binop, partition, initial).
fold_partition(part) ==
  reduceby("incr", 0, [k \in DOMAIN part |-> key(part[k])], part)

\* foldby across partitions: the items of the partitions' tables, in the
\* order of the partitions, reduced per key with combine from
\* combine_initial.
fold_combine(tables) ==
  LET lists == [k \in DOMAIN tables |->
                  CHOOSE s \in Orderings(items(tables[k])) : TRUE]
      all == chain(lists)
  IN reduceby("add", 0, [k \in DOMAIN all |-> all[k][1]],
              [k \in DOMAIN all |-> all[k][2]])

InitBag ==
  /\ cell = "bag"
  /\ pc = "groupby" /\ i = 1
  /\ \E n \in 1..MaxParts : js \in [1..n -> SeqsUpTo(Records, MaxPartLen)]
  /\ result = <<>> /\ partials = <<>> /\ combined = {} /\ df = <<>>
  /\ results = <<>> /\ printed = <<>>
  /\ NoProcs /\ NoRand /\ NoDir /\ NoSlices /\ NoPool /\ NoBook

\* result = js.groupby(...).starmap(...).compute() ; print(sorted(result))
\* The list comes in the order the shuffle leaves the groups in.
GroupbyCell ==
  /\ pc = "groupby"
  /\ result' \in Orderings(starmap_len(groupby(js)))
  /\ printed' = Append(printed, sorted(result'))
  /\ partials' = [k \in DOMAIN js |-> <<>>]
  /\ pc' = "foldby"
  /\ UNCHANGED <<cell, i, procVars, got, results, randVars, dirVars,
                 sliceVars, poolVars, bookVars, js, combined,
                 df>>

\* js.foldby(...).compute(): one partition is folded, in any order.
FoldPartition(p) ==
  /\ pc = "foldby"
  /\ partials[p] = <<>>
  /\ partials' = [partials EXCEPT ![p] = <<fold_partition(js[p])>>]
  /\ UNCHANGED <<cell, mainVars, procVars, got, results, printed, randVars,
                 dirVars, sliceVars, poolVars, bookVars, result, js,
                 combined, df>>

\* ... the folded partitions are combined ; print(sorted(result))
FoldCombine ==
  /\ pc = "foldby"
  /\ \A p \in DOMAIN partials : partials[p] # <<>>
  /\ result' \in Orderings(items(fold_combine(
                   [p \in DOMAIN partials |-> partials[p][1]])))
  /\ printed' = Append(printed, sorted(result'))
  /\ pc' = "done"
  /\ UNCHANGED <<cell, i, procVars, got, results, randVars, dirVars,
                 sliceVars, poolVars, bookVars, js, partials,
                 combined, df>>

NextBag ==
  \/ GroupbyCell
  \/ \E p \in DOMAIN js : FoldPartition(p)
  \/ FoldCombine

SpecBag == InitBag /\ [][NextBag]_vars

\* How many records of the bag have the name n.
RecordsNamed(n) ==
  LET all == chain(js)
  IN Cardinality({k \in DOMAIN all : all[k].name = n})

\* C20: counting records per name, the streaming foldby (incr from 0 inside
\* each partition, add from 0 across partitions) produces the same set of
\* (name, count) pairs as groupby on the name followed by len, for every
\* collection and every way of partitioning it.
C20_FoldbyEqualsGroupby ==
  (cell = "bag" /\ pc = "done") =>
    /\ Len(printed) = 2
    /\ printed[1] = printed[2]
    /\ Range(result) = Range(printed[1])
    /\ Range(result) =
         {<<n, RecordsNamed(n)>> : n \in {m \in Names : RecordsNamed(m) > 0}}

\* Both cells have printed for a bag of two partitions that share a name
\* and hold two names.
C20_Witness ==
  /\ cell = "bag"
  /\ pc = "done"
  /\ Len(js) = 2
  /\ \E x \in DOMAIN js[1], y \in DOMAIN js[2] : js[1][x].name = js[2][y].name
  /\ Len(result) >= 2

(***************************************************************************)
(* dask.bag: b.foldby(is_even, binop=max, combine=max) over range(10).     *)
(***************************************************************************)
\* list(range(10))
range10 == <<0, 1, 2, 3, 4, 5, 6, 7, 8, 9>>

\* db.from_sequence(seq, partition_size=size): consecutive chunks of `size`
\* items, the last one with what is left.
from_sequence(seq, size) ==
  LET n == (Len(seq) + size - 1) \div size
  IN [p \in 1..n |->
        SubSeq(seq, (p - 1) * size + 1,
               IF p * size < Len(seq) THEN p * size ELSE Len(seq))]

\* is_even = lambda x: x % 2
is_even(x) == x % 2

\* toolz.reduceby(key, binop, seq) without init, for a seq given as its list
\* of keys and its list of values: the first value of a key starts its fold.
RECURSIVE reduceby_noinit(_, _, _)
reduceby_noinit(op, keys, vals) ==
  IF keys = <<>> THEN <<>>
  ELSE LET n == Len(keys)
           acc == reduceby_noinit(op, SubSeq(keys, 1, n - 1),
                                  SubSeq(vals, 1, n - 1))
       IN IF keys[n] \in DOMAIN acc
            THEN (keys[n] :> BinOp(op, acc[keys[n]], vals[n])) @@ acc
            ELSE (keys[n] :> vals[n]) @@ acc

\* foldby inside one partition: reduceby(is_even, max, partition)
foldmax_partition(part) ==
  reduceby_noinit("max", [k \in DOMAIN part |-> is_even(part[k])], part)

\* foldby across partitions: one more partition's table combined into the
\* table so far, per key with combine=max.
foldmax_combine(acc, table) ==
  [k \in DOMAIN acc \cup DOMAIN table |->
     IF k \notin DOMAIN table THEN acc[k]
     ELSE IF k \notin DOMAIN acc THEN table[k]
     ELSE BinOp("max", acc[k], table[k])]

\* b = db.from_sequence(list(range(10))), with any partition size.
InitFoldMax ==
  /\ cell = "foldmax"
  /\ pc = "foldby" /\ i = 1
  /\ \E size \in 1..Len(range10) : b = from_sequence(range10, size)
  /\ partials = [p \in DOMAIN b |-> <<>>]
  /\ combined = {} /\ result = <<>>
  /\ js = <<>> /\ df = <<>>
  /\ file = <<>> /\ cpu = 0
  /\ results = <<>> /\ printed = <<>>
  /\ NoProcs /\ NoRand /\ NoDir /\ NoPool /\ NoBook

\* One partition is folded; the partitions are folded in any order.
FoldMaxPartition(p) ==
  /\ pc = "foldby"
  /\ partials[p] = <<>>
  /\ partials' = [partials EXCEPT ![p] = <<foldmax_partition(b[p])>>]
  /\ UNCHANGED <<cell, mainVars, procVars, got, results, printed, randVars,
                 dirVars, sliceVars, poolVars, bookVars, result, js,
                 combined, df>>

\* The table of one folded partition is combined into the result; the
\* tables are combined in any order.
FoldMaxCombine(p) ==
  /\ pc = "foldby"
  /\ partials[p] # <<>>
  /\ p \notin combined
  /\ result' = foldmax_combine(result, partials[p][1])
  /\ combined' = combined \cup {p}
  /\ UNCHANGED <<cell, mainVars, procVars, got, results, printed, randVars,
                 dirVars, sliceVars, poolVars, bookVars, js, partials, df>>

\* .compute(): the cell shows the list of the (key, value) pairs.
FoldMaxCompute ==
  /\ pc = "foldby"
  /\ combined = DOMAIN b
  /\ \E s \in Orderings(items(result)) : printed' = Append(printed, s)
  /\ pc' = "done"
  /\ UNCHANGED <<cell, i, procVars, got, results, randVars, dirVars,
                 sliceVars, poolVars, bookVars, bagVars>>

NextFoldMax ==
  \/ \E p \in DOMAIN b : FoldMaxPartition(p)
  \/ \E p \in DOMAIN b : FoldMaxCombine(p)
  \/ FoldMaxCompute

SpecFoldMax == InitFoldMax /\ [][NextFoldMax]_vars

\* The items of key k in the partitions of the set ps.
ItemsOfKey(k, ps) ==
  UNION {{b[p][j] : j \in {n \in DOMAIN b[p] : is_even(b[p][n]) = k}} :
           p \in ps}

\* C21: foldby with an associative reduction: over range(10),
\* foldby(key = x % 2, binop=max, combine=max) yields for each key the
\* maximum of the items with that key, however the items are split into
\* partitions and in whatever order the partitions' results are combined:
\* at every moment the combined table holds, per key, the maximum of the
\* items of the partitions combined so far.
C21_FoldbyMaxIsMaxPerKey ==
  cell = "foldmax" =>
    /\ \A k \in {0, 1} :
         LET its == ItemsOfKey(k, combined)
         IN IF its = {} THEN k \notin DOMAIN result
            ELSE /\ k \in DOMAIN result
                 /\ result[k] \in its
                 /\ \A x \in its : x <= result[k]
    /\ pc = "done" => Range(printed[1]) = {<<0, 8>>, <<1, 9>>}

\* The result has been computed from ten partitions of one item each.
C21_Witness ==
  /\ cell = "foldmax"
  /\ pc = "done"
  /\ Len(b) = 10
  /\ Len(printed) = 1

(***************************************************************************)
(* Accounts exercise 2: the column `new` added to the dataframe df.        *)
(* df is a list of partitions, a partition a list of rows indexed from 0   *)
(* by position; a cell of a column is <<value>>, or <<>> for NaN.          *)
(***************************************************************************)
\* The values of the column amount in the model.
Amounts == {1492, 72, -91, 0}

\* df[df.amount > 0].amount // 100 in one partition: the series over the
\* index labels of the rows with a positive amount.
PositiveHundreds(part) ==
  [k \in {n \in DOMAIN part : part[n].amount > 0} |->
     part[k].amount \div 100]

\* df['new'] = series in one partition: the series is aligned on the index
\* of df; a row whose label the series does not have gets NaN.
AssignNew(part, series) ==
  [k \in DOMAIN part |->
     [amount |-> part[k].amount,
      new |-> IF k \in DOMAIN series THEN <<series[k]>> ELSE <<>>]]

\* df = dd.read_csv(filename, dtype={...})
InitAccounts ==
  /\ cell = "accounts"
  /\ pc = "assign" /\ i = 1
  /\ \E n \in 1..MaxParts :
       df \in [1..n -> SeqsUpTo([amount : Amounts], MaxPartLen)]
  /\ result = <<>> /\ js = <<>> /\ partials = <<>> /\ combined = {}
  /\ results = <<>> /\ printed = <<>>
  /\ NoProcs /\ NoRand /\ NoDir /\ NoSlices /\ NoPool /\ NoBook

\* df['new'] = df[df.amount > 0].amount//100
AddNewColumn ==
  /\ pc = "assign"
  /\ df' = [p \in DOMAIN df |-> AssignNew(df[p], PositiveHundreds(df[p]))]
  /\ pc' = "done"
  /\ UNCHANGED <<cell, i, procVars, got, results, printed, randVars, dirVars,
                 sliceVars, poolVars, bookVars, result, js, partials,
                 combined>>

NextAccounts == AddNewColumn

SpecAccounts == InitAccounts /\ [][NextAccounts]_vars

\* C22: added column of the accounts exercise: for every row the new column
\* holds amount // 100 when amount is positive and 0 when amount is
\* negative, and no row is left without a value.
C22_NewColumnHundredsOrZero ==
  (cell = "accounts" /\ pc = "done") =>
    \A p \in DOMAIN df : \A k \in DOMAIN df[p] :
      LET row == df[p][k]
      IN /\ row.new # <<>>
         /\ row.amount > 0 => row.new = <<row.amount \div 100>>
         /\ row.amount < 0 => row.new = <<0>>

(***************************************************************************)
(* Task 4 under fair scheduling: the main program and every started        *)
(* worker process keep being scheduled.                                    *)
(***************************************************************************)
FairTask4 ==
  /\ WF_vars(FillQueue)
  /\ WF_vars(RandStart)
  /\ WF_vars(RandJoin)
  /\ WF_vars(RandGet)
  /\ WF_vars(ReducePrint)
  /\ \A p \in 1..MaxCPU :
       WF_vars(p \in DOMAIN processes /\ counting4(p))

\* The run of the program does not depend on what the files hold: here
\* every file of the directory has the text "а".
InitTask4Fair == InitTask4 /\ \A k \in DOMAIN onlyfiles : onlyfiles[k] = <<1072>>

SpecTask4Fair == InitTask4Fair /\ [][NextTask4]_vars /\ FairTask4

\* How many times x occurs in the sequence s.
CountIn(x, s) == Cardinality({k \in DOMAIN s : s[k] = x})

\* How many times the processes have got x from the queue.
RECURSIVE TimesTaken(_, _)
TimesTaken(x, n) ==
  IF n = 0 THEN 0 ELSE CountIn(x, taken[n]) + TimesTaken(x, n - 1)

AllStopped == \A p \in DOMAIN processes : processes[p].state = "stopped"

\* C23: sentinel work queue: all file names are enqueued before the CPU None
\* sentinels and each worker loops get/process until it reads None; every
\* file name is dequeued by exactly one worker exactly once (none twice,
\* none skipped), and no None is read while a file name is still in the
\* queue (in the queue no None ever stands before a file name).
C23_EachFileDequeuedOnce ==
  (cell = "task4" /\ pc # "fill") =>
    /\ \A j, k \in DOMAIN queue :
         (j < k /\ queue[j] = None) => queue[k] = None
    /\ \A k \in DOMAIN onlyfiles :
         TimesTaken(<<k>>, CPU) + CountIn(<<k>>, queue) = 1
    /\ \A p \in DOMAIN processes :
         Len(produced[p]) + (IF processes[p].state = "working" THEN 1 ELSE 0)
           = Len(taken[p]) - CountIn(None, taken[p])
    /\ AllStopped =>
         \A k \in DOMAIN onlyfiles : TimesTaken(<<k>>, CPU) = 1

\* Two workers have shared three files, each took at least one, and both
\* have read their None.
C23_Witness ==
  /\ cell = "task4"
  /\ CPU = 2 /\ Len(onlyfiles) = 3
  /\ AllStopped
  /\ \A p \in DOMAIN processes : Len(produced[p]) >= 1

C25_Task4MainTerminates ==
  <>(cell = "task4" /\ pc = "done" /\ output = <<>>
       /\ Len(got) = Len(putOrder))

(***************************************************************************)
(* Task 3 with a bounded transport under the output queue.  output.put     *)
(* hands the item to the process's feeder thread, which writes it to the   *)
(* queue's pipe; the pipe holds at most PipeCapacity unread items, and a   *)
(* process does not exit before its item has been written.                 *)
(***************************************************************************)
\* counter.counting(file_name, output) in process p up to output.put(cnt):
\* the tally is buffered, the process is left waiting to flush it.
counting3_put(p) ==
  /\ processes[p].state = "started"
  /\ produced' = [produced EXCEPT
                    ![p] = Append(@, counting(onlyfiles[processes[p].args[1]]))]
  /\ processes' = [processes EXCEPT ![p].state = "flushing"]
  /\ UNCHANGED <<cell, mainVars, output, putOrder, got, results, printed,
                 randVars, dirVars, sliceVars, poolVars, bookVars, bagVars>>

\* The feeder thread of process p writes the buffered tally to the pipe
\* when the pipe has room; the process then exits.
flush(p) ==
  /\ processes[p].state = "flushing"
  /\ Len(output) < PipeCapacity
  /\ output' = Append(output, produced[p][Len(produced[p])])
  /\ putOrder' = Append(putOrder, p)
  /\ processes' = [processes EXCEPT ![p].state = "stopped"]
  /\ UNCHANGED <<cell, mainVars, produced, got, results, printed, randVars,
                 dirVars, sliceVars, poolVars, bookVars, bagVars>>

NextTask3Bounded ==
  \/ RandStart
  \/ RandJoin
  \/ RandGet
  \/ ReducePrint
  \/ \E p \in DOMAIN processes : counting3_put(p)
  \/ \E p \in DOMAIN processes : flush(p)

SpecTask3Bounded == InitTask3 /\ [][NextTask3Bounded]_vars

\* C26: join before drain: the main program joins every worker before
\* taking anything from the output queue; even when the queue's transport
\* holds only a bounded number of unread items, every join returns: while
\* the main program is in its join loop some step of the program is always
\* possible (no deadlock between a worker waiting to flush and the main
\* program waiting in join).
C26_NoJoinDeadlock ==
  (cell = "task3" /\ pc = "join") => ENABLED NextTask3Bounded

(***************************************************************************)
(* The pool version of count_in_dir: inside `for file in files` a pool of  *)
(* len(files) workers maps counters.count_chars_in_book over all files.    *)
(***************************************************************************)
InitPoolDir ==
  /\ cell = "pool_dir"
  /\ pc = "loop" /\ i = 1
  /\ \E n \in 0..MaxFiles : onlyfiles \in [1..n -> SampleTexts]
  /\ queue = <<>> /\ CPU = 0 /\ taken = <<>>
  /\ results = <<>> /\ printed = <<>>
  /\ NoProcs /\ NoRand /\ NoSlices /\ NoPool /\ NoBook /\ NoBag

\* for file in files: with mp.Pool(processes=len(files)) as pool:
PoolDirEnter ==
  /\ pc = "loop"
  /\ i <= Len(onlyfiles)
  /\ NewPool(Len(onlyfiles))
  /\ pc' = "map"
  /\ UNCHANGED <<cell, i, procVars, got, results, printed, randVars, dirVars,
                 sliceVars, bookVars, bagVars>>

\* pool.map(counters.count_chars_in_book, files): every file is submitted
\* (as many workers as files make chunks of one file) ...
PoolDirSubmit ==
  /\ pc = "map"
  /\ taskq' = [k \in DOMAIN onlyfiles |->
                 [job |-> k, func |-> "count_chars_in_book",
                  arg |-> onlyfiles[k]]]
  /\ pc' = "map_wait"
  /\ UNCHANGED <<cell, i, procVars, got, results, printed, randVars, dirVars,
                 sliceVars, workers, cache, bookVars, bagVars>>

\* ... chars_in_file = the list of the results by file index, once every
\* task has finished; the with block ends the pool; next file of the loop.
PoolDirCollect ==
  /\ pc = "map_wait"
  /\ \A k \in DOMAIN onlyfiles : k \in DOMAIN cache
  /\ chars_in_file' = [k \in DOMAIN onlyfiles |-> cache[k]]
  /\ taskq' = <<>> /\ workers' = <<>> /\ cache' = <<>>
  /\ i' = i + 1
  /\ pc' = "loop"
  /\ UNCHANGED <<cell, procVars, got, results, printed, randVars, dirVars,
                 sliceVars, total, returned, bagVars>>

\* return chars_in_file: with no file the name was never bound and the
\* return raises UnboundLocalError.
PoolDirReturn ==
  /\ pc = "loop"
  /\ i > Len(onlyfiles)
  /\ IF onlyfiles = <<>>
       THEN pc' = "error" /\ UNCHANGED returned
       ELSE pc' = "returned" /\ returned' = <<chars_in_file>>
  /\ UNCHANGED <<cell, i, procVars, got, results, printed, randVars, dirVars,
                 sliceVars, poolVars, total, chars_in_file, bagVars>>

NextPoolDir ==
  \/ PoolDirEnter
  \/ PoolDirSubmit
  \/ PoolDirCollect
  \/ PoolDirReturn
  \/ \E w \in DOMAIN workers : PoolTake(w)
  \/ \E w \in DOMAIN workers : PoolRun(w)

SpecPoolDir == InitPoolDir /\ [][NextPoolDir]_vars

\* C27: pool version of count_in_dir: for a directory with n >= 1 files it
\* returns a list of exactly n per-file tables, the i-th being the table of
\* the i-th listed file whatever order the workers finish in (not a merged
\* total), and each file is counted exactly once per call.
C27_PoolDirCountsEachFileOnce ==
  (cell = "pool_dir" /\ pc = "returned") =>
    /\ Len(returned[1]) = Len(onlyfiles)
    /\ \A k \in DOMAIN onlyfiles :
         /\ returned[1][k] = count_chars_in_book("alphabet", onlyfiles[k])
         /\ CountIn(k, putOrder) = 1

\* C28: list of pool.apply calls: although the pool has 4 workers, at every
\* moment at most one submitted task is executing or pending, because each
\* pool.apply call returns only after its own task has finished and the
\* next task is submitted only after that.
C28_ApplyOneTaskAtATime ==
  (cell = "cube" /\ pc \in {"apply_submit", "apply_wait", "apply_print"}) =>
    /\ Len(workers) = 4
    /\ Len(taskq) + Cardinality(Executing) <= 1
    /\ pc = "apply_submit" => Submitted = 1..(i - 1)

\* The sixth pool.apply call waits while its task is executing on one of
\* the four workers and the other three are idle.
C28_Witness ==
  /\ cell = "cube"
  /\ pc = "apply_wait"
  /\ i = 6
  /\ Len(workers) = 4
  /\ Cardinality(Executing) = 1
  /\ DOMAIN cache = 1..5

====
